---- MODULE Spec2Model ----
(***************************************************************************)
(* The clipboard worker of clipcatd (src/bin/clipcatd/worker/clipboard.rs): *)
(* ClipboardWorker::run, handle_event, handle_message and start, together   *)
(* with the channels and the three lock-protected collaborators it uses.    *)
(*                                                                          *)
(* The worker is one task.  Every `.lock().await` is a suspension point, so *)
(* each locked statement is two steps: acquiring the lock, then the call    *)
(* and the release of the guard at the end of the statement.  Another task  *)
(* of the daemon shares the three locks.                                    *)
(***************************************************************************)
EXTENDS Naturals, Sequences, FiniteSets

(* ------------------------------ bounds --------------------------------- *)

\* clipboard events the event source produces in one run
MaxEvents == 2

\* slots of the broadcast channel behind event_recv
MaxBuffer == 1

\* largest capacity the Clip Store is configured with
MaxCapacity == 1

\* Shutdown messages the holders of the MessageSender send in one run
MaxMessages == 2

\* mutations of the Clip Store by the other task in one run
MaxOtherOps == 1

(* ------------------------------ state ---------------------------------- *)

VARIABLES
    pc,            \* the worker's position in run / handle_event
    quit,          \* run: let mut quit
    trigger,       \* the terminal value the select resolved to, "none" before
    data,          \* handle_event: let data
    id,            \* handle_event: let id
    snapshot,      \* run: let (clips, history_capacity)
    result,        \* what the JoinHandle resolves to, "pending" before
    monitorLock,   \* holder of clipboard_monitor's Mutex
    managerLock,   \* holder of clipboard_manager's Mutex
    historyLock,   \* holder of history_manager's Mutex
    subscribed,    \* event_recv exists
    events,        \* values retained by the broadcast channel for event_recv
    lagged,        \* values event_recv missed since its last recv
    closed,        \* every broadcast Sender is dropped
    produced,      \* events sent so far
    messages,      \* Shutdown messages queued in msg_rx
    sent,          \* Shutdown messages sent on tx so far
    txAlive,       \* a MessageSender still exists
    ctlQueue,      \* CtlMessage::Shutdown delivered to the receiver of ctl_tx
    clips,         \* Clip Store: records, oldest first
    capacity,      \* Clip Store: capacity
    primary,       \* Clip Store: id marked as the Primary selection, NoId if none
    clipboard,     \* Clip Store: id marked as the Clipboard selection
    nextId,        \* Clip Store: next record id
    history,       \* History Store: persisted records, oldest first
    calls,         \* how often the worker has issued each operation
    failed,        \* a call or a send of the worker has returned Err
    inserted,      \* the contents the worker has passed to insert, in order
    otherOps,      \* mutations of the Clip Store by the other task
    seenOps        \* otherOps when the worker received its latest event

workerVars == <<pc, quit, trigger, data, id, snapshot, result>>

lockVars == <<monitorLock, managerLock, historyLock>>

eventVars == <<subscribed, events, lagged, closed, produced>>

msgVars == <<messages, sent, txAlive>>

ctlVars == <<ctlQueue>>

managerVars == <<clips, capacity, primary, clipboard, nextId>>

ghostVars == <<calls, failed, inserted, otherOps, seenOps>>

vars == <<workerVars, lockVars, eventVars, msgVars, ctlVars, managerVars, history, ghostVars>>

NoId == 0

NoData == [data |-> 0, clipboard_type |-> "Clipboard"]

ClipboardType == {"Clipboard", "Primary"}

Operations == {"insert", "mark_as_primary", "mark_as_clipboard", "put", "list", "save_and_shrink_to", "ctl_send"}

(* --------------------------- pure helpers ------------------------------ *)

\* the last n elements of s
LastN(s, n) == IF Len(s) <= n THEN s ELSE SubSeq(s, Len(s) - n + 1, Len(s))

Elements(s) == {s[i] : i \in 1..Len(s)}

Ids(cs) == {cs[i].id : i \in 1..Len(cs)}

\* s without its i-th element
RemoveAt(s, i) == SubSeq(s, 1, i - 1) \o SubSeq(s, i + 1, Len(s))

Count(op) == [calls EXCEPT ![op] = @ + 1]

\* ClipboardData::from(ClipboardEvent): the content and its provenance
FromEvent(event) == [data |-> event.data, clipboard_type |-> event.clipboard_type]

(* ------------- Clip Store and History Store (collaborators) ------------ *)

\* Both stores are followed by the content of their records: the event source
\* numbers the contents, so the content identifies the record.

\* ClipboardManager::insert: the record is appended under a fresh id and the
\* oldest records beyond the capacity are evicted
ManagerInsert(cs, cap, nid, d) == LastN(Append(cs, [id |-> nid, data |-> d.data]), cap)

\* a selection marker names a record of the store or nothing
KeepMarker(m, cs) == IF m \in Ids(cs) THEN m ELSE NoId

\* ClipboardManager::list: the records in order
ManagerList(cs) == [i \in 1..Len(cs) |-> cs[i].data]

\* ClipboardManager::mark_as_primary / mark_as_clipboard: Ok or Err; an id
\* that is no longer in the store cannot be marked
MarkOutcomes(cs, i) == IF i \in Ids(cs) THEN BOOLEAN ELSE {FALSE}

\* HistoryManager::put
HistoryPut(h, d) == Append(h, d.data)

\* HistoryManager::save_and_shrink_to: persist the records, keep the most
\* recent cap of them
HistorySaveAndShrinkTo(records, cap) == LastN(records, cap)

(* ------------------------------- Init ---------------------------------- *)

\* the state start() leaves: the channel is created, the worker is spawned
\* and run has not taken its first step
Init ==
    /\ pc = "subscribe_lock"
    /\ quit = FALSE
    /\ trigger = "none"
    /\ data = NoData
    /\ id = NoId
    /\ snapshot = [clips |-> <<>>, history_capacity |-> 0]
    /\ result = "pending"
    /\ monitorLock = "free"
    /\ managerLock = "free"
    /\ historyLock = "free"
    /\ subscribed = FALSE
    /\ events = <<>>
    /\ lagged = 0
    /\ closed = FALSE
    /\ produced = 0
    /\ messages = 0
    /\ sent = 0
    /\ txAlive = TRUE
    /\ ctlQueue = 0
    /\ clips = <<>>
    /\ capacity \in 1..MaxCapacity
    /\ primary = NoId
    /\ clipboard = NoId
    /\ nextId = 1
    /\ history = <<>>
    /\ calls = [op \in Operations |-> 0]
    /\ failed = FALSE
    /\ inserted = <<>>
    /\ otherOps = 0
    /\ seenOps = 0

(* ------------------------- ClipboardWorker::run ------------------------ *)

\* the loop entered again whatever the handler returned
LoopNextNeverExits(q) == "select"

\* the loop test negated
LoopNextNegated(q) == IF q THEN "select" ELSE "snapshot_lock"

\* while !quit: where run continues once a select branch has yielded q
LoopNext(q) == IF q THEN "snapshot_lock" ELSE "select"

\* handle_event without the return true of the Closed branch
HandleEventNeverQuits(kind) == FALSE

\* handle_event treating Lagged as it treats Closed
HandleEventQuitsOnErr(kind) == kind # "Ok"

\* what handle_event returns for each kind of receive result
HandleEventResult(kind) == kind = "Closed"

\* handle_message that stops on a closed channel only
HandleMessageOnlyNone(msg) == msg = "None"

\* handle_message that stops on Message::Shutdown only
HandleMessageOnlyShutdown(msg) == msg = "Shutdown"

\* what handle_message returns for None and for Some(Message::Shutdown)
HandleMessageResult(msg) == msg \in {"None", "Shutdown"}

\* run with the flush written save_and_shrink_to(..)?
RunResultPropagated(ok) == IF ok THEN "Ok" ELSE "Err"

\* what run returns after the flush, whose result was Ok (ok) or Err
RunResult(ok) == "Ok"

\* run, line 36: clipboard_monitor.lock().await
SubscribeLock ==
    /\ pc = "subscribe_lock"
    /\ monitorLock = "free"
    /\ monitorLock' = "worker"
    /\ pc' = "subscribe"
    /\ UNCHANGED <<quit, trigger, data, id, snapshot, result, managerLock, historyLock>>
    /\ UNCHANGED <<eventVars, msgVars, ctlVars, managerVars, history, ghostVars>>

\* run, lines 37-38: monitor.subscribe(), the guard is dropped
Subscribe ==
    /\ pc = "subscribe"
    /\ subscribed' = TRUE
    /\ events' = <<>>
    /\ lagged' = 0
    /\ monitorLock' = "free"
    /\ pc' = "select"
    /\ UNCHANGED <<quit, trigger, data, id, snapshot, result, managerLock, historyLock>>
    /\ UNCHANGED <<closed, produced, msgVars, ctlVars, managerVars, history, ghostVars>>

\* lines 41-44 with the message arm given priority: an event is taken only
\* when the message channel has nothing ready
RecvEventBiased ==
    /\ pc = "select"
    /\ messages = 0
    /\ txAlive
    /\ subscribed
    /\ lagged = 0
    /\ events # <<>>
    /\ data' = FromEvent(Head(events))
    /\ events' = Tail(events)
    /\ pc' = "insert_lock"
    /\ seenOps' = otherOps
    /\ UNCHANGED <<quit, trigger, id, snapshot, result, lockVars>>
    /\ UNCHANGED <<subscribed, lagged, closed, produced>>
    /\ UNCHANGED <<msgVars, ctlVars, managerVars, history>>
    /\ UNCHANGED <<calls, failed, inserted, otherOps>>

\* run, line 42 with handle_event, lines 78-84: recv yields Ok(event); the
\* event is logged and converted, then handle_event awaits the manager's lock
RecvEvent ==
    /\ pc = "select"
    /\ subscribed
    /\ lagged = 0
    /\ events # <<>>
    /\ data' = FromEvent(Head(events))
    /\ events' = Tail(events)
    /\ pc' = "insert_lock"
    /\ seenOps' = otherOps
    /\ UNCHANGED <<quit, trigger, id, snapshot, result, lockVars>>
    /\ UNCHANGED <<subscribed, lagged, closed, produced>>
    /\ UNCHANGED <<msgVars, ctlVars, managerVars, history>>
    /\ UNCHANGED <<calls, failed, inserted, otherOps>>

\* run, line 42 with handle_event, lines 77 and 92: recv yields Err(Lagged(n))
\* and the receiver continues at the oldest retained value
RecvLagged ==
    /\ pc = "select"
    /\ subscribed
    /\ lagged > 0
    /\ lagged' = 0
    /\ quit' = HandleEventResult("Lagged")
    /\ pc' = LoopNext(quit')
    /\ trigger' = IF quit' THEN "Lagged" ELSE trigger
    /\ UNCHANGED <<data, id, snapshot, result, lockVars>>
    /\ UNCHANGED <<subscribed, events, closed, produced>>
    /\ UNCHANGED <<msgVars, ctlVars, managerVars, history, ghostVars>>

\* lines 69-76 with the Err of the send propagated out of run, skipping the
\* termination sequence
RecvClosedPropagates ==
    /\ pc = "select"
    /\ subscribed
    /\ lagged = 0
    /\ events = <<>>
    /\ closed
    /\ \E ok \in BOOLEAN :
        /\ ctlQueue' = IF ok THEN ctlQueue + 1 ELSE ctlQueue
        /\ failed' = (failed \/ ~ok)
        /\ quit' = HandleEventResult("Closed")
        /\ pc' = IF ok THEN LoopNext(quit') ELSE "done"
        /\ result' = IF ok THEN result ELSE "Err"
    /\ calls' = Count("ctl_send")
    /\ trigger' = "Closed"
    /\ UNCHANGED <<data, id, snapshot, lockVars, eventVars>>
    /\ UNCHANGED <<msgVars, managerVars, history, inserted, otherOps, seenOps>>

\* run, line 42 with handle_event, lines 69-76: recv yields Err(Closed); the
\* internal shutdown is sent on ctl_tx, which is Ok while the receiver of the
\* control signal exists and Err once it is dropped; the result is dropped
RecvClosed ==
    /\ pc = "select"
    /\ subscribed
    /\ lagged = 0
    /\ events = <<>>
    /\ closed
    /\ \E ok \in BOOLEAN :
        /\ ctlQueue' = IF ok THEN ctlQueue + 1 ELSE ctlQueue
        /\ failed' = (failed \/ ~ok)
    /\ calls' = Count("ctl_send")
    /\ trigger' = "Closed"
    /\ quit' = HandleEventResult("Closed")
    /\ pc' = LoopNext(quit')
    /\ UNCHANGED <<data, id, snapshot, result, lockVars, eventVars>>
    /\ UNCHANGED <<msgVars, managerVars, history, inserted, otherOps, seenOps>>

\* the message branch draining the queue instead of taking one message
RecvShutdownDrains ==
    /\ pc = "select"
    /\ messages > 0
    /\ messages' = 0
    /\ trigger' = "Shutdown"
    /\ quit' = HandleMessageResult("Shutdown")
    /\ pc' = LoopNext(quit')
    /\ UNCHANGED <<data, id, snapshot, result, lockVars, eventVars>>
    /\ UNCHANGED <<sent, txAlive, ctlVars, managerVars, history, ghostVars>>

\* lines 98-103 with handle_message passing the shutdown on to ctl_tx as
\* handle_event does at line 75
RecvShutdownSignals ==
    /\ pc = "select"
    /\ messages > 0
    /\ messages' = messages - 1
    /\ \E ok \in BOOLEAN :
        /\ ctlQueue' = IF ok THEN ctlQueue + 1 ELSE ctlQueue
        /\ failed' = (failed \/ ~ok)
    /\ calls' = Count("ctl_send")
    /\ trigger' = "Shutdown"
    /\ quit' = HandleMessageResult("Shutdown")
    /\ pc' = LoopNext(quit')
    /\ UNCHANGED <<data, id, snapshot, result, lockVars, eventVars>>
    /\ UNCHANGED <<sent, txAlive, managerVars, history, inserted, otherOps, seenOps>>

\* run, line 43 with handle_message, lines 98-103: recv yields Some(Shutdown)
RecvShutdown ==
    /\ pc = "select"
    /\ messages > 0
    /\ messages' = messages - 1
    /\ trigger' = "Shutdown"
    /\ quit' = HandleMessageResult("Shutdown")
    /\ pc' = LoopNext(quit')
    /\ UNCHANGED <<data, id, snapshot, result, lockVars, eventVars>>
    /\ UNCHANGED <<sent, txAlive, ctlVars, managerVars, history, ghostVars>>

\* run, line 43 with handle_message, line 97: every sender is dropped and
\* the queue is empty, recv yields None
RecvNone ==
    /\ pc = "select"
    /\ messages = 0
    /\ ~txAlive
    /\ trigger' = "None"
    /\ quit' = HandleMessageResult("None")
    /\ pc' = LoopNext(quit')
    /\ UNCHANGED <<data, id, snapshot, result, lockVars, eventVars>>
    /\ UNCHANGED <<msgVars, ctlVars, managerVars, history, ghostVars>>

(* -------------------- handle_event, Ok(event) branch ------------------- *)

\* the worker acquires clipboard_manager's lock at position at and goes to to
LockManager(at, to) ==
    /\ pc = at
    /\ managerLock = "free"
    /\ managerLock' = "worker"
    /\ pc' = to
    /\ UNCHANGED <<quit, trigger, data, id, snapshot, result, monitorLock, historyLock>>
    /\ UNCHANGED <<eventVars, msgVars, ctlVars, managerVars, history, ghostVars>>

\* the worker acquires history_manager's lock at position at and goes to to
LockHistory(at, to) ==
    /\ pc = at
    /\ historyLock = "free"
    /\ historyLock' = "worker"
    /\ pc' = to
    /\ UNCHANGED <<quit, trigger, data, id, snapshot, result, monitorLock, managerLock>>
    /\ UNCHANGED <<eventVars, msgVars, ctlVars, managerVars, history, ghostVars>>

\* line 85: clipboard_manager.lock().await
InsertLock == LockManager("insert_lock", "insert")

\* line 85 with the guard of insert kept for the two marks
InsertKeepsGuard ==
    /\ pc = "insert"
    /\ id' = nextId
    /\ nextId' = nextId + 1
    /\ clips' = ManagerInsert(clips, capacity, nextId, data)
    /\ primary' = KeepMarker(primary, clips')
    /\ clipboard' = KeepMarker(clipboard, clips')
    /\ calls' = Count("insert")
    /\ inserted' = Append(inserted, data.data)
    /\ pc' = "mark_primary_lock"
    /\ UNCHANGED <<quit, trigger, data, snapshot, result, lockVars>>
    /\ UNCHANGED <<eventVars, msgVars, ctlVars, capacity, history, failed, otherOps, seenOps>>

\* line 85: let id = ... .insert(data.clone()); the guard is dropped
Insert ==
    /\ pc = "insert"
    /\ id' = nextId
    /\ nextId' = nextId + 1
    /\ clips' = ManagerInsert(clips, capacity, nextId, data)
    /\ primary' = KeepMarker(primary, clips')
    /\ clipboard' = KeepMarker(clipboard, clips')
    /\ calls' = Count("insert")
    /\ inserted' = Append(inserted, data.data)
    /\ managerLock' = "free"
    /\ pc' = "mark_primary_lock"
    /\ UNCHANGED <<quit, trigger, data, snapshot, result, monitorLock, historyLock>>
    /\ UNCHANGED <<eventVars, msgVars, ctlVars, capacity, history, failed, otherOps, seenOps>>

\* line 86: clipboard_manager.lock().await
MarkPrimaryLock == LockManager("mark_primary_lock", "mark_primary")

\* line 86 with the guard bound to a name and so kept past the statement
MarkPrimaryKeepsGuard ==
    /\ pc = "mark_primary"
    /\ \E ok \in MarkOutcomes(clips, id) :
        /\ primary' = IF ok THEN id ELSE primary
        /\ failed' = (failed \/ ~ok)
    /\ calls' = Count("mark_as_primary")
    /\ pc' = "mark_clipboard_lock"
    /\ UNCHANGED <<quit, trigger, data, id, snapshot, result, lockVars>>
    /\ UNCHANGED <<eventVars, msgVars, ctlVars, clips, capacity, clipboard, nextId>>
    /\ UNCHANGED <<history, inserted, otherOps, seenOps>>

\* line 86 with the handler abandoned as soon as a control message waits,
\* as if the select at line 41 could cancel a handler that has started
MarkPrimaryCancellable ==
    /\ pc = "mark_primary"
    /\ IF messages > 0
         THEN /\ quit' = TRUE
              /\ trigger' = "Shutdown"
              /\ pc' = LoopNext(quit')
              /\ UNCHANGED <<primary, failed, calls>>
         ELSE /\ \E ok \in MarkOutcomes(clips, id) :
                  /\ primary' = IF ok THEN id ELSE primary
                  /\ failed' = (failed \/ ~ok)
              /\ calls' = Count("mark_as_primary")
              /\ pc' = "mark_clipboard_lock"
              /\ UNCHANGED <<quit, trigger>>
    /\ managerLock' = "free"
    /\ UNCHANGED <<data, id, snapshot, result, monitorLock, historyLock>>
    /\ UNCHANGED <<eventVars, msgVars, ctlVars, clips, capacity, clipboard, nextId>>
    /\ UNCHANGED <<history, inserted, otherOps, seenOps>>

\* line 86: let _ = ... .mark_as_primary(id).await; the guard is dropped
MarkPrimary ==
    /\ pc = "mark_primary"
    /\ \E ok \in MarkOutcomes(clips, id) :
        /\ primary' = IF ok THEN id ELSE primary
        /\ failed' = (failed \/ ~ok)
    /\ calls' = Count("mark_as_primary")
    /\ managerLock' = "free"
    /\ pc' = "mark_clipboard_lock"
    /\ UNCHANGED <<quit, trigger, data, id, snapshot, result, monitorLock, historyLock>>
    /\ UNCHANGED <<eventVars, msgVars, ctlVars, clips, capacity, clipboard, nextId>>
    /\ UNCHANGED <<history, inserted, otherOps, seenOps>>

\* line 87: clipboard_manager.lock().await
MarkClipboardLock == LockManager("mark_clipboard_lock", "mark_clipboard")

\* line 87 with the guard bound to a name and so kept past the statement
MarkClipboardKeepsGuard ==
    /\ pc = "mark_clipboard"
    /\ \E ok \in MarkOutcomes(clips, id) :
        /\ clipboard' = IF ok THEN id ELSE clipboard
        /\ failed' = (failed \/ ~ok)
    /\ calls' = Count("mark_as_clipboard")
    /\ pc' = "put_lock"
    /\ UNCHANGED <<quit, trigger, data, id, snapshot, result, lockVars>>
    /\ UNCHANGED <<eventVars, msgVars, ctlVars, clips, capacity, primary, nextId>>
    /\ UNCHANGED <<history, inserted, otherOps, seenOps>>

\* line 87 marking the Clipboard selection for Clipboard events only
MarkClipboardByType ==
    /\ pc = "mark_clipboard"
    /\ \E ok \in MarkOutcomes(clips, id) :
        /\ clipboard' = IF ok /\ data.clipboard_type = "Clipboard" THEN id ELSE clipboard
        /\ failed' = (failed \/ ~ok)
    /\ calls' = Count("mark_as_clipboard")
    /\ managerLock' = "free"
    /\ pc' = "put_lock"
    /\ UNCHANGED <<quit, trigger, data, id, snapshot, result, monitorLock, historyLock>>
    /\ UNCHANGED <<eventVars, msgVars, ctlVars, clips, capacity, primary, nextId>>
    /\ UNCHANGED <<history, inserted, otherOps, seenOps>>

\* line 87: let _ = ... .mark_as_clipboard(id).await; the guard is dropped
MarkClipboard ==
    /\ pc = "mark_clipboard"
    /\ \E ok \in MarkOutcomes(clips, id) :
        /\ clipboard' = IF ok THEN id ELSE clipboard
        /\ failed' = (failed \/ ~ok)
    /\ calls' = Count("mark_as_clipboard")
    /\ managerLock' = "free"
    /\ pc' = "put_lock"
    /\ UNCHANGED <<quit, trigger, data, id, snapshot, result, monitorLock, historyLock>>
    /\ UNCHANGED <<eventVars, msgVars, ctlVars, clips, capacity, primary, nextId>>
    /\ UNCHANGED <<history, inserted, otherOps, seenOps>>

\* line 88: history_manager.lock().await
PutLock == LockHistory("put_lock", "put")

\* line 88 with the Err of put ending the loop instead of being dropped
PutStopsOnErr ==
    /\ pc = "put"
    /\ \E ok \in BOOLEAN :
        /\ history' = IF ok THEN HistoryPut(history, data) ELSE history
        /\ failed' = (failed \/ ~ok)
        /\ quit' = ~ok
    /\ calls' = Count("put")
    /\ historyLock' = "free"
    /\ pc' = LoopNext(quit')
    /\ trigger' = IF quit' THEN "Ok" ELSE trigger
    /\ UNCHANGED <<data, id, snapshot, result, monitorLock, managerLock>>
    /\ UNCHANGED <<eventVars, msgVars, ctlVars, managerVars, inserted, otherOps, seenOps>>

\* lines 88-92: let _ = ... .put(&data); the guard is dropped and
\* handle_event returns false
Put ==
    /\ pc = "put"
    /\ \E ok \in BOOLEAN :
        /\ history' = IF ok THEN HistoryPut(history, data) ELSE history
        /\ failed' = (failed \/ ~ok)
    /\ calls' = Count("put")
    /\ historyLock' = "free"
    /\ quit' = HandleEventResult("Ok")
    /\ pc' = LoopNext(quit')
    /\ trigger' = IF quit' THEN "Ok" ELSE trigger
    /\ UNCHANGED <<data, id, snapshot, result, monitorLock, managerLock>>
    /\ UNCHANGED <<eventVars, msgVars, ctlVars, managerVars, inserted, otherOps, seenOps>>

(* ------------------------ run, the final flush ------------------------- *)

\* line 48: clipboard_manager.lock().await
SnapshotLock == LockManager("snapshot_lock", "snapshot")

\* lines 47-50 without the block: cm lives until run returns
SnapshotKeepsGuard ==
    /\ pc = "snapshot"
    /\ snapshot' = [clips |-> ManagerList(clips), history_capacity |-> capacity]
    /\ calls' = Count("list")
    /\ pc' = "save_lock"
    /\ UNCHANGED <<quit, trigger, data, id, result, lockVars>>
    /\ UNCHANGED <<eventVars, msgVars, ctlVars, managerVars, history>>
    /\ UNCHANGED <<failed, inserted, otherOps, seenOps>>

\* lines 49-50: (cm.list(), cm.capacity()); the guard is dropped
Snapshot ==
    /\ pc = "snapshot"
    /\ snapshot' = [clips |-> ManagerList(clips), history_capacity |-> capacity]
    /\ calls' = Count("list")
    /\ managerLock' = "free"
    /\ pc' = "save_lock"
    /\ UNCHANGED <<quit, trigger, data, id, result, monitorLock, historyLock>>
    /\ UNCHANGED <<eventVars, msgVars, ctlVars, managerVars, history>>
    /\ UNCHANGED <<failed, inserted, otherOps, seenOps>>

\* line 53: history_manager.lock().await
SaveLock == LockHistory("save_lock", "save")

\* run returning without the call of save_and_shrink_to
SaveSkipped ==
    /\ pc = "save"
    /\ result' = RunResult(TRUE)
    /\ historyLock' = "free"
    /\ pc' = "done"
    /\ UNCHANGED <<quit, trigger, data, id, snapshot, monitorLock, managerLock>>
    /\ UNCHANGED <<eventVars, msgVars, ctlVars, managerVars, history, ghostVars>>

\* lines 55-61: hm.save_and_shrink_to(&clips, history_capacity), an Err is
\* logged; the guard is dropped and run returns
Save ==
    /\ pc = "save"
    /\ \E ok \in BOOLEAN :
        /\ history' = IF ok
                      THEN HistorySaveAndShrinkTo(snapshot.clips, snapshot.history_capacity)
                      ELSE history
        /\ failed' = (failed \/ ~ok)
        /\ result' = RunResult(ok)
    /\ calls' = Count("save_and_shrink_to")
    /\ historyLock' = "free"
    /\ pc' = "done"
    /\ UNCHANGED <<quit, trigger, data, id, snapshot, monitorLock, managerLock>>
    /\ UNCHANGED <<eventVars, msgVars, ctlVars, managerVars, inserted, otherOps, seenOps>>

(* ------------------- the event source and the senders ------------------ *)

\* the broadcast channel after a send of e: a full channel overwrites its
\* oldest value, which event_recv then has missed
Broadcast(q, e) == IF Len(q) < MaxBuffer THEN Append(q, e) ELSE Append(Tail(q), e)

\* the monitor sends a ClipboardEvent, numbered by its content; event_recv
\* sees what is sent after it subscribed
Produce ==
    /\ pc # "done"
    /\ subscribed
    /\ ~closed
    /\ produced < MaxEvents
    /\ produced' = produced + 1
    /\ \E kind \in ClipboardType :
        events' = Broadcast(events, [clipboard_type |-> kind, data |-> produced'])
    /\ lagged' = IF Len(events) = MaxBuffer THEN lagged + 1 ELSE lagged
    /\ UNCHANGED <<workerVars, lockVars, subscribed, closed>>
    /\ UNCHANGED <<msgVars, ctlVars, managerVars, history, ghostVars>>

\* the monitor terminates: the last broadcast Sender is dropped
Close ==
    /\ pc # "done"
    /\ ~closed
    /\ closed' = TRUE
    /\ UNCHANGED <<workerVars, lockVars, subscribed, events, lagged, produced>>
    /\ UNCHANGED <<msgVars, ctlVars, managerVars, history, ghostVars>>

\* start, lines 114-117: a holder of the returned MessageSender sends
\* Message::Shutdown; the send fails once run has returned and dropped msg_rx
SendShutdown ==
    /\ txAlive
    /\ pc # "done"
    /\ sent < MaxMessages
    /\ sent' = sent + 1
    /\ messages' = messages + 1
    /\ UNCHANGED <<workerVars, lockVars, eventVars, txAlive>>
    /\ UNCHANGED <<ctlVars, managerVars, history, ghostVars>>

\* the last MessageSender is dropped
DropSender ==
    /\ pc # "done"
    /\ txAlive
    /\ txAlive' = FALSE
    /\ UNCHANGED <<workerVars, lockVars, eventVars, messages, sent>>
    /\ UNCHANGED <<ctlVars, managerVars, history, ghostVars>>

(* ------------------ another task sharing the three locks --------------- *)

\* the other task takes one lock at a time, as long as the worker runs
OtherIdle ==
    /\ pc # "done"
    /\ monitorLock # "other"
    /\ managerLock # "other"
    /\ historyLock # "other"

OtherLockMonitor ==
    /\ OtherIdle
    /\ monitorLock = "free"
    /\ monitorLock' = "other"
    /\ UNCHANGED <<workerVars, managerLock, historyLock, eventVars, msgVars>>
    /\ UNCHANGED <<ctlVars, managerVars, history, ghostVars>>

OtherUnlockMonitor ==
    /\ monitorLock = "other"
    /\ monitorLock' = "free"
    /\ UNCHANGED <<workerVars, managerLock, historyLock, eventVars, msgVars>>
    /\ UNCHANGED <<ctlVars, managerVars, history, ghostVars>>

OtherLockManager ==
    /\ OtherIdle
    /\ managerLock = "free"
    /\ managerLock' = "other"
    /\ UNCHANGED <<workerVars, monitorLock, historyLock, eventVars, msgVars>>
    /\ UNCHANGED <<ctlVars, managerVars, history, ghostVars>>

OtherUnlockManager ==
    /\ managerLock = "other"
    /\ managerLock' = "free"
    /\ UNCHANGED <<workerVars, monitorLock, historyLock, eventVars, msgVars>>
    /\ UNCHANGED <<ctlVars, managerVars, history, ghostVars>>

OtherLockHistory ==
    /\ OtherIdle
    /\ historyLock = "free"
    /\ historyLock' = "other"
    /\ UNCHANGED <<workerVars, monitorLock, managerLock, eventVars, msgVars>>
    /\ UNCHANGED <<ctlVars, managerVars, history, ghostVars>>

OtherUnlockHistory ==
    /\ historyLock = "other"
    /\ historyLock' = "free"
    /\ UNCHANGED <<workerVars, monitorLock, managerLock, eventVars, msgVars>>
    /\ UNCHANGED <<ctlVars, managerVars, history, ghostVars>>

\* the other task removes a record from the Clip Store while it holds the lock
OtherRemove ==
    /\ managerLock = "other"
    /\ otherOps < MaxOtherOps
    /\ \E i \in 1..Len(clips) : clips' = RemoveAt(clips, i)
    /\ primary' = KeepMarker(primary, clips')
    /\ clipboard' = KeepMarker(clipboard, clips')
    /\ otherOps' = otherOps + 1
    /\ UNCHANGED <<workerVars, lockVars, eventVars, msgVars, ctlVars>>
    /\ UNCHANGED <<capacity, nextId, history, calls, failed, inserted, seenOps>>

(* ------------------------------ the system ----------------------------- *)

Worker ==
    \/ SubscribeLock
    \/ Subscribe
    \/ RecvEvent
    \/ RecvLagged
    \/ RecvClosed
    \/ RecvShutdown
    \/ RecvNone
    \/ InsertLock
    \/ Insert
    \/ MarkPrimaryLock
    \/ MarkPrimary
    \/ MarkClipboardLock
    \/ MarkClipboard
    \/ PutLock
    \/ Put
    \/ SnapshotLock
    \/ Snapshot
    \/ SaveLock
    \/ Save

Environment ==
    \/ Produce
    \/ Close
    \/ SendShutdown
    \/ DropSender

Other ==
    \/ OtherLockMonitor
    \/ OtherUnlockMonitor
    \/ OtherLockManager
    \/ OtherUnlockManager
    \/ OtherLockHistory
    \/ OtherUnlockHistory
    \/ OtherRemove

Next == Worker \/ Environment \/ Other

Spec == Init /\ [][Next]_vars

(* ------------------------------ fairness ------------------------------- *)

\* the worker's steps that wait for nothing
WorkerRuns ==
    \/ Subscribe
    \/ RecvEvent
    \/ RecvLagged
    \/ RecvClosed
    \/ RecvNone
    \/ Insert
    \/ MarkPrimary
    \/ MarkClipboard
    \/ Put
    \/ Snapshot
    \/ Save

\* the worker's lock acquisitions
WorkerLocks ==
    \/ SubscribeLock
    \/ InsertLock
    \/ MarkPrimaryLock
    \/ MarkClipboardLock
    \/ PutLock
    \/ SnapshotLock
    \/ SaveLock

\* the other task releases the lock it holds
OtherUnlocks ==
    \/ OtherUnlockMonitor
    \/ OtherUnlockManager
    \/ OtherUnlockHistory

\* the executor runs the worker when it is ready; select! takes the ready
\* message branch again and again; tokio's Mutex hands the lock to a waiter
\* once it is released; every other holder of a lock releases it
FairSpec ==
    /\ Spec
    /\ WF_vars(WorkerRuns)
    /\ SF_vars(RecvShutdown)
    /\ SF_vars(WorkerLocks)
    /\ WF_vars(OtherUnlocks)

(* ------------------------------- claims -------------------------------- *)

\* the positions of the event loop, lines 40-45 with handle_event
Looping == pc \in {"select", "insert_lock", "insert", "mark_primary_lock", "mark_primary",
                   "mark_clipboard_lock", "mark_clipboard", "put_lock", "put"}

\* the positions of the termination sequence, lines 47-59
Flushing == pc \in {"snapshot_lock", "snapshot", "save_lock", "save"}

Stopped == pc = "done"

Terminal == {"Shutdown", "None", "Closed"}

\* C1: save_and_shrink_to is called exactly once in a run, only after the
\* event loop has exited (quit is set by a Shutdown message, by the closure
\* of the message channel or by Closed) and before run returns; it has not
\* been called at any position of the loop.
C1_FlushOnceAfterLoop ==
    /\ calls["save_and_shrink_to"] = (IF Stopped THEN 1 ELSE 0)
    /\ (Flushing \/ Stopped) => (quit /\ trigger \in Terminal)
    /\ Looping => calls["save_and_shrink_to"] = 0

C1_Witness ==
    /\ Stopped
    /\ trigger = "Closed"
    /\ calls["save_and_shrink_to"] = 1
    /\ calls["insert"] > 0

C3_ClosedSendsOneShutdown ==
    /\ trigger = "Closed" => (quit /\ ~Looping /\ calls["ctl_send"] = 1)
    /\ (trigger = "Closed" /\ calls["insert"] = 0 /\ pc \in {"save_lock", "save", "done"})
         => (snapshot = [clips |-> <<>>, history_capacity |-> capacity])
    /\ (trigger = "Closed" /\ calls["insert"] = 0 /\ Stopped) => history = <<>>

C3_Witness ==
    /\ Stopped
    /\ trigger = "Closed"
    /\ sent = 0
    /\ produced = 0
    /\ calls["ctl_send"] = 1
    /\ ctlQueue = 1

\* C4: the step that handles Lagged(n) issues no insert, no mark, no put and
\* no internal shutdown, changes neither store, and leaves the loop running.
C4_LaggedIsSkipped ==
    [][(pc = "select" /\ lagged > 0 /\ lagged' = 0)
         => (pc' = "select" /\ ~quit' /\ trigger' = trigger
             /\ UNCHANGED <<managerVars, history, ctlVars, calls, events>>)]_vars

\* a Lagged has been handled: events are missing and the loop goes on
C4_Witness ==
    /\ pc = "select"
    /\ ~quit
    /\ lagged = 0
    /\ produced > Len(inserted) + Len(events)

\* C5: once the message branch has yielded Shutdown the loop is left at
\* once, and from then on the worker issues no insert, mark or put, whatever
\* is pending in event_recv.
C5_ShutdownEndsLoopAtOnce ==
    [][(trigger' = "Shutdown")
         => (/\ quit'
             /\ ~Looping'
             /\ calls'["insert"] = calls["insert"]
             /\ calls'["mark_as_primary"] = calls["mark_as_primary"]
             /\ calls'["mark_as_clipboard"] = calls["mark_as_clipboard"]
             /\ calls'["put"] = calls["put"]
             /\ lagged' >= lagged
             /\ Len(events') >= Len(events))]_vars

C5_Witness ==
    /\ Stopped
    /\ trigger = "Shutdown"
    /\ Len(events) = MaxBuffer
    /\ lagged > 0
    /\ calls["insert"] = 0

\* C6: the closure of the message channel (None) ends the loop as a Shutdown
\* message does: the loop is left, no internal shutdown is sent, and the one
\* flush follows.
C6_ClosureIsShutdown ==
    \A t \in {"None", "Shutdown"} :
        trigger = t =>
            /\ quit
            /\ ~Looping
            /\ calls["ctl_send"] = 0
            /\ calls["save_and_shrink_to"] = (IF Stopped THEN 1 ELSE 0)

C6_Witness ==
    /\ Stopped
    /\ trigger = "None"
    /\ sent = 0
    /\ ~closed

\* C7: run returns Ok whenever it returns, also after a failed
\* save_and_shrink_to, mark, put or internal send.
C7_RunReturnsOk ==
    /\ Stopped => result = "Ok"
    /\ ~Stopped => result = "pending"

\* the only call issued was save_and_shrink_to, and it failed
C7_Witness ==
    /\ Stopped
    /\ failed
    /\ calls["insert"] = 0
    /\ calls["ctl_send"] = 0

\* C8: after N events and the flush, with every call Ok and no other task
\* mutating the store, the History Store holds at most capacity records,
\* each one of the last capacity records inserted.
C8_HistoryHoldsLastCapacity ==
    (Stopped /\ ~failed /\ otherOps = 0)
        => /\ Len(history) <= capacity
           /\ Elements(history) \subseteq Elements(LastN(inserted, capacity))

\* more records were inserted than the capacity; the oldest are dropped
C8_Witness ==
    /\ Stopped
    /\ ~failed
    /\ otherOps = 0
    /\ Len(inserted) > capacity
    /\ history = LastN(inserted, capacity)
    /\ Len(history) = capacity

\* C9: once an event is handled, with every call Ok and no other task
\* mutating the store meanwhile, the Primary and the Clipboard marker both
\* name the id insert returned, whatever the event's type, and the History
\* Store was given the event's data.
C9_BothMarkersAtNewId ==
    (/\ pc \in {"select", "snapshot_lock", "snapshot", "save_lock", "save"}
     /\ calls["put"] > 0
     /\ ~failed
     /\ otherOps = seenOps)
        => /\ id \in Ids(clips)
           /\ primary = id
           /\ clipboard = id
           /\ calls["put"] = calls["insert"]
           /\ history # <<>>
           /\ history[Len(history)] = data.data

C9_Witness ==
    /\ pc = "select"
    /\ calls["put"] = 1
    /\ ~failed
    /\ otherOps = seenOps
    /\ data.clipboard_type = "Primary"
    /\ primary = id
    /\ clipboard = id

\* C10: of two or more queued Shutdown messages the loop takes exactly one,
\* then flushes once and returns Ok; the others stay in the queue.
C10_OneShutdownConsumed ==
    /\ sent - messages <= 1
    /\ trigger = "Shutdown" => (sent - messages = 1 /\ ~Looping)
    /\ (Stopped /\ trigger = "Shutdown")
         => (calls["save_and_shrink_to"] = 1 /\ result = "Ok")

C10_Witness ==
    /\ Stopped
    /\ trigger = "Shutdown"
    /\ sent = 2
    /\ messages = 1
    /\ result = "Ok"

\* the locks the worker holds
Held == {l \in {"monitor", "manager", "history"} :
            \/ (l = "monitor" /\ monitorLock = "worker")
            \/ (l = "manager" /\ managerLock = "worker")
            \/ (l = "history" /\ historyLock = "worker")}

\* the calls of the current event issued so far, by position: insert,
\* mark_as_primary, mark_as_clipboard, put
Issued ==
    CASE pc \in {"mark_primary_lock", "mark_primary"} -> <<1, 0, 0, 0>>
      [] pc \in {"mark_clipboard_lock", "mark_clipboard"} -> <<1, 1, 0, 0>>
      [] pc \in {"put_lock", "put"} -> <<1, 1, 1, 0>>
      [] OTHER -> <<0, 0, 0, 0>>

\* C11: for each received event insert, mark_as_primary, mark_as_clipboard
\* and put are issued in this order, each under a lock acquisition of its
\* own (no lock is held while the next one is awaited), and all four are
\* issued before the first of the next event.
C11_FourStepsInOrder ==
    /\ calls["insert"] = calls["put"] + Issued[1]
    /\ calls["mark_as_primary"] = calls["put"] + Issued[2]
    /\ calls["mark_as_clipboard"] = calls["put"] + Issued[3]
    /\ pc \in {"insert_lock", "mark_primary_lock", "mark_clipboard_lock", "put_lock"}
         => Held = {}
    /\ pc \in {"insert", "mark_primary", "mark_clipboard"} => Held = {"manager"}
    /\ pc = "put" => Held = {"history"}

\* the second event is between its two marks and the other task has the lock
C11_Witness ==
    /\ pc = "mark_clipboard_lock"
    /\ managerLock = "other"
    /\ calls["insert"] = 2
    /\ calls["mark_as_primary"] = 2
    /\ calls["mark_as_clipboard"] = 1
    /\ calls["put"] = 1

\* C12: the worker holds at most one of the three locks in every state.
C12_AtMostOneLock == Cardinality(Held) <= 1

\* the worker calls put while the other task has the Clip Store's lock
C12_Witness ==
    /\ pc = "put"
    /\ historyLock = "worker"
    /\ managerLock = "other"

\* C13: the list and the capacity are read in one step under the Clip
\* Store's lock, the lock is released before the History Store's lock is
\* awaited, and save_and_shrink_to is given that list and that capacity,
\* whatever the store holds by then.
C13_FlushUsesOneSnapshot ==
    /\ [](pc \in {"save_lock", "save"} => managerLock # "worker")
    /\ [](pc = "snapshot" => Held = {"manager"})
    /\ [][(pc = "snapshot" /\ pc' # "snapshot")
            => (/\ pc' = "save_lock"
                /\ snapshot' = [clips |-> ManagerList(clips), history_capacity |-> capacity]
                /\ UNCHANGED managerVars)]_vars
    /\ [][(pc \in {"save_lock", "save"}) => (snapshot' = snapshot)]_vars
    /\ [][(pc = "save" /\ pc' = "done")
            => history' \in {history,
                             HistorySaveAndShrinkTo(snapshot.clips, snapshot.history_capacity)}]_vars

\* the store has changed between the snapshot and the call
C13_Witness ==
    /\ pc = "save"
    /\ historyLock = "worker"
    /\ snapshot.clips # ManagerList(clips)
    /\ snapshot.history_capacity = capacity

\* C14: a mark_as_primary, mark_as_clipboard or put that fails (the marker
\* is not set, the history is not extended) is followed by the next step of
\* the same event and leaves the loop running; no call is issued more often
\* than insert, so none is retried.
C14_FailuresAreSkipped ==
    /\ [][(pc = "mark_primary" /\ pc' # "mark_primary" /\ primary' # id)
            => (pc' = "mark_clipboard_lock" /\ ~quit'
                /\ calls' = Count("mark_as_primary"))]_vars
    /\ [][(pc = "mark_clipboard" /\ pc' # "mark_clipboard" /\ clipboard' # id)
            => (pc' = "put_lock" /\ ~quit'
                /\ calls' = Count("mark_as_clipboard"))]_vars
    /\ [][(pc = "put" /\ pc' # "put" /\ history' = history)
            => (pc' = "select" /\ ~quit' /\ trigger' = trigger
                /\ calls' = Count("put"))]_vars
    /\ [](\A op \in {"mark_as_primary", "mark_as_clipboard", "put"} :
            calls[op] <= calls["insert"])

\* the put of the first event failed and the second event was handled in full
C14_Witness ==
    /\ pc = "select"
    /\ ~quit
    /\ calls["put"] = 2
    /\ Len(history) = 1
    /\ primary = id
    /\ clipboard = id
    /\ otherOps = 0

\* C15: insert and the two marks are separate critical sections.  Between
\* them the worker does not hold the Clip Store lock and another task can
\* take it; after insert the new record is in the store with the primary
\* marker not at it; the record of the worker's id leaves the store only in a
\* step of another task, and only then does a mark run with an id that is no
\* longer stored.
C15_InsertAndMarksNotAtomic ==
    /\ [](pc \in {"mark_primary_lock", "mark_clipboard_lock"} => managerLock # "worker")
    /\ []((/\ pc \in {"mark_primary_lock", "mark_clipboard_lock"}
           /\ Held = {}
           /\ lockVars = <<"free", "free", "free">>) => ENABLED OtherLockManager)
    /\ [](pc = "mark_primary_lock"
            => ((id \in Ids(clips) /\ primary # id) \/ otherOps > seenOps))
    /\ []((pc \in {"mark_primary", "mark_clipboard"} /\ id \notin Ids(clips))
            => otherOps > seenOps)
    /\ [][(id \in Ids(clips) /\ id' = id /\ id \notin Ids(clips'))
            => (managerLock = "other" /\ pc' = pc
                /\ pc \notin {"insert", "mark_primary", "mark_clipboard"})]_vars

\* the worker holds the lock for mark_as_primary and its id is already gone
C15_Witness ==
    /\ pc = "mark_primary"
    /\ managerLock = "worker"
    /\ id # NoId
    /\ id \notin Ids(clips)
    /\ calls["insert"] = calls["mark_as_primary"] + 1

\* the new record is stored, no marker points at it, another task has the lock
C15_RecordWithoutMarker ==
    /\ pc = "mark_primary_lock"
    /\ managerLock = "other"
    /\ id \in Ids(clips)
    /\ primary # id
    /\ clipboard # id

\* the positions inside handle_event's Ok arm, lines 78-89
Handling == pc \in {"insert_lock", "insert", "mark_primary_lock", "mark_primary",
                    "mark_clipboard_lock", "mark_clipboard", "put_lock", "put"}

\* C16: a Shutdown message can arrive, and the message channel can close,
\* while an event is being handled; the handler is left only through put, back
\* to the select with quit unset; quit is set only by a step taken at the
\* select; so once the loop has exited all four steps were issued for every
\* event that was received.
C16_EventNotCutShort ==
    /\ []((Handling /\ txAlive /\ sent < MaxMessages) => ENABLED SendShutdown)
    /\ []((Handling /\ txAlive) => ENABLED DropSender)
    /\ []((Handling /\ (messages > 0 \/ ~txAlive)) => ~quit)
    /\ [][(Handling /\ ~Handling') => (pc = "put" /\ pc' = "select" /\ ~quit')]_vars
    /\ [][(quit' /\ ~quit) => (pc = "select" /\ ~Looping')]_vars
    /\ [](~Looping => (/\ calls["mark_as_primary"] = calls["insert"]
                       /\ calls["mark_as_clipboard"] = calls["insert"]
                       /\ calls["put"] = calls["insert"]))

\* a Shutdown message waits while the worker is about to issue put: the two
\* marks of this event were issued after it could have stopped
C16_Witness ==
    /\ pc = "put"
    /\ messages > 0
    /\ ~quit
    /\ calls["insert"] = 1
    /\ calls["mark_as_clipboard"] = 1
    /\ calls["put"] = 0

\* the event arm of the select can complete: recv() has a lag notice, a
\* value or the closure to return (line 42)
EventReady == subscribed /\ (lagged > 0 \/ events # <<>> \/ closed)

\* the message arm of the select can complete: recv() has a message or the
\* closure to return (line 43)
MessageReady == messages > 0 \/ ~txAlive

\* C17: when the select is reached with both arms ready, each arm can be the
\* one taken: the step that handles the broadcast item and the step that
\* handles the control message are both enabled.
C17_NoPriorityInSelect ==
    (pc = "select" /\ EventReady /\ MessageReady)
        => (/\ ENABLED (RecvEvent \/ RecvLagged \/ RecvClosed)
            /\ ENABLED (RecvShutdown \/ RecvNone))

\* an event and a Shutdown message are both waiting at the select
C17_Witness ==
    /\ pc = "select"
    /\ lagged = 0
    /\ events # <<>>
    /\ messages > 0
    /\ ENABLED RecvEvent
    /\ ENABLED RecvShutdown

\* C18: the internal CtlMessage::Shutdown is sent only by the step that
\* handles Closed: the number of sends is 1 when the loop was ended by Closed
\* and 0 otherwise (Shutdown message, closure of the message channel, events
\* and Lagged notices handled on the way), and the control queue never holds
\* more signals than were sent.
C18_SignalOnlyOnClosed ==
    /\ [](calls["ctl_send"] = (IF trigger = "Closed" THEN 1 ELSE 0))
    /\ [](ctlQueue <= calls["ctl_send"])
    /\ [][(calls'["ctl_send"] # calls["ctl_send"] \/ ctlQueue' # ctlQueue)
            => (/\ pc = "select" /\ closed /\ events = <<>> /\ lagged = 0
                /\ trigger' = "Closed" /\ quit' /\ ~Looping')]_vars

\* a run with events handled and the event source closed, ended by a
\* Shutdown message before Closed was received: no signal was sent
C18_Witness ==
    /\ Stopped
    /\ trigger = "Shutdown"
    /\ closed
    /\ calls["put"] > 0
    /\ calls["ctl_send"] = 0
    /\ ctlQueue = 0

\* C19: once quit is set the worker issues no insert, no mark and no put:
\* the only operations counted after the stop decision are the snapshot
\* (list with capacity) and save_and_shrink_to, in steps of the termination
\* sequence; quit is never unset, and save_and_shrink_to is issued with quit
\* set, so every put precedes it.
C19_NoStoreWritesAfterStop ==
    /\ []((Flushing \/ Stopped) => quit)
    /\ [](calls["list"] + calls["save_and_shrink_to"] > 0 => quit)
    /\ [][quit => quit']_vars
    /\ [][quit => (\A op \in {"insert", "mark_as_primary", "mark_as_clipboard", "put", "ctl_send"} :
                      calls'[op] = calls[op])]_vars
    /\ [][(quit /\ calls' # calls)
            => (/\ pc \in {"snapshot", "save"}
                /\ \E op \in {"list", "save_and_shrink_to"} : calls' = Count(op))]_vars
    /\ [][(quit /\ history' # history) => (pc = "save" /\ pc' = "done")]_vars

\* the run is over with an event handled before the stop decision and one
\* still in the receiver that was never inserted
C19_Witness ==
    /\ Stopped
    /\ trigger = "None"
    /\ events # <<>>
    /\ calls["put"] = 1
    /\ calls["insert"] = 1
    /\ calls["save_and_shrink_to"] = 1

\* the internal shutdown was sent and not delivered: the send returned Err
SendFailed == calls["ctl_send"] = 1 /\ ctlQueue = 0

\* C20: when the send of the internal shutdown fails, the step that made it
\* still sets quit and enters the termination sequence; from there on the
\* loop is not entered again, save_and_shrink_to is called once, when run
\* returns, and run returns Ok.
C20_FailedSignalIgnored ==
    /\ [](SendFailed => (/\ trigger = "Closed" /\ quit /\ failed
                         /\ (Flushing \/ Stopped)
                         /\ calls["save_and_shrink_to"] = (IF Stopped THEN 1 ELSE 0)
                         /\ (Stopped => result = "Ok")))
    /\ [][(~SendFailed /\ SendFailed') => (pc = "select" /\ pc' = "snapshot_lock")]_vars
    /\ [][SendFailed => SendFailed']_vars

\* run has returned Ok with the flush done after a send that failed, events
\* having been handled before
C20_Witness ==
    /\ Stopped
    /\ SendFailed
    /\ result = "Ok"
    /\ calls["save_and_shrink_to"] = 1
    /\ calls["put"] > 0

====
